---------------------------- MODULE Spec2Model ----------------------------
(***************************************************************************)
(* Bank Management System: the ledger document, the operations of the two  *)
(* front ends (the interactive menu of main.py and the form UI of app.py,  *)
(* which shares db.py and utils.py) and the persisted file.                *)
(*                                                                         *)
(* Money is a Python float in the source.  A float is modelled as a record *)
(* that is either a finite number (whole units) or NaN, the value that     *)
(* float("nan") parses to; comparisons with NaN are false and arithmetic   *)
(* with NaN gives NaN, as in IEEE-754.                                     *)
(***************************************************************************)
EXTENDS Integers, Sequences, FiniteSets, TLC

VARIABLES
    db,     \* the in-memory document of the running process
    file,   \* the document persisted at DB_PATH
    proc,   \* which front end is running: "cli" (main.py) or "ui" (app.py)
    disk,   \* the files next to DB_PATH, each with how much of it is written
    ps      \* the processes of the store specification: position and memory

vars == <<db, file, proc, disk, ps>>

(***************************************************************************)
(* Bounds of the model.                                                    *)
(***************************************************************************)
\* size of the document: its accounts plus all their transaction records
MaxDoc == 4

(***************************************************************************)
(* Floats.                                                                 *)
(***************************************************************************)
Fin(n) == [k |-> "fin", v |-> n]
NaN == [k |-> "nan", v |-> 0]
IsNaN(x) == x.k = "nan"

FAdd(x, y) == IF IsNaN(x) \/ IsNaN(y) THEN NaN ELSE Fin(x.v + y.v)
FSub(x, y) == IF IsNaN(x) \/ IsNaN(y) THEN NaN ELSE Fin(x.v - y.v)
FMul(x, y) == IF IsNaN(x) \/ IsNaN(y) THEN NaN ELSE Fin(x.v * y.v)
\* x / 100.0; the rates of the model are whole multiples of 100 percent
FDiv100(x) == IF IsNaN(x) THEN NaN ELSE Fin(x.v \div 100)
FLe(x, y) == ~IsNaN(x) /\ ~IsNaN(y) /\ x.v <= y.v
FLt(x, y) == ~IsNaN(x) /\ ~IsNaN(y) /\ x.v < y.v
FGt(x, y) == ~IsNaN(x) /\ ~IsNaN(y) /\ x.v > y.v
FGe(x, y) == ~IsNaN(x) /\ ~IsNaN(y) /\ x.v >= y.v

(***************************************************************************)
(* Text inputs.  A text is a token; what the code asks of a text (its      *)
(* length, str.isdigit, float(), int()) is tabulated.                      *)
(***************************************************************************)
ValueError == [k |-> "ValueError", v |-> 0]

\* float(text.strip())
ParseFloat(t) ==
    CASE t = "-1"   -> Fin(-1)
      [] t = "0"    -> Fin(0)
      [] t = "1"    -> Fin(1)
      [] t = "2"    -> Fin(2)
      [] t = "-100" -> Fin(-100)
      [] t = "100"  -> Fin(100)
      [] t = "nan"  -> NaN
      [] OTHER      -> ValueError

\* int(text.strip())
ParseInt(t) ==
    CASE t = "17" -> Fin(17)
      [] t = "30" -> Fin(30)
      [] OTHER    -> ValueError

StrLen(t) ==
    CASE t = ""             -> 0
      [] t = "12"           -> 2
      [] t = "1234"         -> 4
      [] t = "0000"         -> 4
      [] t = "abcd"         -> 4
      [] t = "98765"        -> 5
      [] t = "9876543210"   -> 10
      [] t = "ABCDE12345"   -> 10
      [] t = "123456789012" -> 12
      [] OTHER              -> 1

IsDigit(t) == t \in {"12", "1234", "0000", "98765", "9876543210", "123456789012"}

AmountTexts == {"abc", "0", "1", "nan"}
\* typed at "Annual interest rate (percent)", "Years" and "Apply interest
\* to account? (y/N)"
InterestTexts == {<<"abc", "1", "y">>, <<"-100", "1", "y">>, <<"100", "0", "y">>,
                  <<"100", "1", "n">>, <<"100", "1", "y">>}
AgeTexts    == {"abc", "17", "30"}
NameTexts   == {"", "Asha"}
MobileTexts == {"98765", "9876543210"}
AadhaarTexts == {"98765", "123456789012"}
PanTexts    == {"abcd", "ABCDE12345"}
NewPinTexts == {"12", "abcd", "1234"}   \* typed when an account is created
PinTexts    == {"1234", "0000"}          \* typed when an operation asks for the PIN

\* st.number_input(..., min_value=...): the widget yields a finite float >= min_value
UiAmounts == {Fin(1)}
UiRates   == {Fin(100)}
UiYears   == {Fin(1)}

(***************************************************************************)
(* Credentials.                                                            *)
(***************************************************************************)
\* what os.urandom(8).hex() can return: 16 hexadecimal digits
HexSalts == {"s1", "s2"}
\* the salts drawn when an account of the ledger is created
Salts == {"s1"}

\* the characters of a salt
SaltChars(s) ==
    CASE s = "s1" -> <<"0", "1", "2", "3", "4", "5", "6", "7",
                       "8", "9", "a", "b", "c", "d", "e", "f">>
      [] s = "s2" -> <<"0", "1", "2", "3", "4", "5", "6", "7",
                       "8", "9", "a", "b", "c", "d", "e", "0">>

\* the characters of a text typed as a PIN
PinChars(t) ==
    CASE t = ""      -> <<>>
      [] t = "12"    -> <<"1", "2">>
      [] t = "1234"  -> <<"1", "2", "3", "4">>
      [] t = "0000"  -> <<"0", "0", "0", "0">>
      [] t = "abcd"  -> <<"a", "b", "c", "d">>
      [] t = "01234" -> <<"0", "1", "2", "3", "4">>

\* hashlib.sha256(text.encode()).hexdigest(), taken as collision-free: the
\* digest stands for the text it was computed from
Sha256(text) == <<"sha256", text>>

\* mutant of verify_pin: the two digests are compared on the length of the
\* hashed text only
verify_pin_length_only(pin, salt, hashed) ==
    Len(Sha256(SaltChars(salt) \o PinChars(pin))[2]) = Len(hashed[2])

hash_pin(pin, salt) ==
    [salt |-> salt, hashed |-> Sha256(SaltChars(salt) \o PinChars(pin))]

verify_pin(pin, salt, hashed) == Sha256(SaltChars(salt) \o PinChars(pin)) = hashed

DEFAULT_ADMIN == [username |-> "roshan", password |-> "roshan8084"]

(***************************************************************************)
(* Account numbers.                                                        *)
(***************************************************************************)
AccNos == {"AAAA000001", "BBBB000002"}
None == "None"
\* what the user can type as an account number
AccTexts == AccNos \cup {"ZZZZ999999"}
\* what the user can type as the two account numbers of a transfer
Routes == {<<"AAAA000001", "BBBB000002">>, <<"BBBB000002", "AAAA000001">>,
           <<"AAAA000001", "AAAA000001">>, <<"AAAA000001", "ZZZZ999999">>,
           <<"ZZZZ999999", "AAAA000001">>}

Attempts == 10

\* the candidates gen_account_number() returns in the (at most) ten rounds of
\* the retry loop: the same number k times, then the other one
CandSeqs ==
    { [i \in 1..Attempts |-> IF i <= k THEN "AAAA000001" ELSE "BBBB000002"] :
        k \in {1, Attempts} }

(***************************************************************************)
(* The document.                                                           *)
(***************************************************************************)
Now == "ts"
Absent == "absent"

FreshDb == [admin |-> DEFAULT_ADMIN, accounts |-> <<>>]

\* find_account: the index of the first account with that number, 0 for None
RECURSIVE FindFrom(_, _, _)
FindFrom(accts, acc_no, i) ==
    IF i > Len(accts) THEN 0
    ELSE IF accts[i].account_no = acc_no THEN i
    ELSE FindFrom(accts, acc_no, i + 1)

find_account(d, acc_no) == FindFrom(d.accounts, acc_no, 1)

SetBalance(d, i, b) ==
    [d EXCEPT !.accounts[i].balance = b]

\* a note: its fixed text and the values formatted into it
Note(text, args) == [text |-> text, args |-> args]

\* record_tx with the new record put in front of the log instead of at its end
record_tx_prepend(d, i, tx_type, amount, note) ==
    [d EXCEPT !.accounts[i].transactions =
        <<[type |-> tx_type,
           amount |-> amount,
           balance_after |-> d.accounts[i].balance]>> \o @]

\* record_tx: balance_after is the account's balance at the time of the call.
\* The id, the ts and the note of a record are text that no handler reads; a
\* record keeps its type, its amount and its balance_after.
record_tx(d, i, tx_type, amount, note) ==
    [d EXCEPT !.accounts[i].transactions =
        Append(@, [type |-> tx_type,
                   amount |-> amount,
                   balance_after |-> d.accounts[i].balance])]

\* the transaction records of the accounts from index i on
RECURSIVE SumTx(_, _)
SumTx(accts, i) ==
    IF i > Len(accts) THEN 0 ELSE Len(accts[i].transactions) + SumTx(accts, i + 1)

\* the bound of the model, as a guard on the document an operation produces
\* (a record adds at most the balance or one unit to a balance, so the
\* balances are bounded too)
InBounds(d) ==
    Len(d.accounts) + SumTx(d.accounts, 1) <= MaxDoc

\* what a handler does, as a value: the document it leaves in memory, whether
\* it called save_db, and the message it showed (with the amount in it)
NoVal == [k |-> "none", v |-> 0]
Shown(msg, val) == [msg |-> msg, val |-> val]
Result(d, saved, msg) == [db |-> d, saved |-> saved, out |-> Shown(msg, NoVal)]
ResultVal(d, saved, msg, val) == [db |-> d, saved |-> saved, out |-> Shown(msg, val)]

\* load_db on an existing, readable file
load_db == file

Run(r) ==
    /\ InBounds(r.db)
    /\ db' = r.db
    /\ file' = IF r.saved THEN r.db ELSE file
    /\ UNCHANGED <<disk, ps>>

(***************************************************************************)
(* main.py: deposit                                                        *)
(***************************************************************************)
\* deposit that records the transaction before it updates the balance
deposit_record_first(d, acc_no, amtText) ==
    LET i == find_account(d, acc_no)
        amt == ParseFloat(amtText)
    IN  IF i = 0 THEN Result(d, FALSE, "Account not found.")
        ELSE IF amt = ValueError THEN Result(d, FALSE, "Invalid amount.")
        ELSE IF FLe(amt, Fin(0)) THEN Result(d, FALSE, "Amount must be positive.")
        ELSE LET d1 == record_tx(d, i, "deposit", amt, Note("deposit via CLI", <<>>))
                 d2 == SetBalance(d1, i, FAdd(d.accounts[i].balance, amt))
             IN  Result(d2, TRUE, "Deposit successful.")

deposit(d, acc_no, amtText) ==
    LET i == find_account(d, acc_no)
        amt == ParseFloat(amtText)
    IN  IF i = 0 THEN Result(d, FALSE, "Account not found.")
        ELSE IF amt = ValueError THEN Result(d, FALSE, "Invalid amount.")
        ELSE IF FLe(amt, Fin(0)) THEN Result(d, FALSE, "Amount must be positive.")
        ELSE LET d1 == SetBalance(d, i, FAdd(d.accounts[i].balance, amt))
                 d2 == record_tx(d1, i, "deposit", amt, Note("deposit via CLI", <<>>))
             IN  Result(d2, TRUE, "Deposit successful.")

CliDeposit(acc_no, amtText) ==
    /\ proc = "cli"
    /\ Run(deposit(db, acc_no, amtText))
    /\ UNCHANGED proc

(***************************************************************************)
(* main.py: withdraw                                                       *)
(***************************************************************************)
\* withdraw that compares the amount with the balance before it checks the PIN
withdraw_funds_first(d, acc_no, pin, amtText) ==
    LET i == find_account(d, acc_no)
        amt == ParseFloat(amtText)
    IN  IF i = 0 THEN Result(d, FALSE, "Account not found.")
        ELSE IF amt = ValueError THEN Result(d, FALSE, "Invalid amount.")
        ELSE IF FLe(amt, Fin(0)) THEN Result(d, FALSE, "Amount must be positive.")
        ELSE IF FGt(amt, d.accounts[i].balance)
             THEN Result(d, FALSE, "Insufficient balance.")
        ELSE IF ~verify_pin(pin, d.accounts[i].pin_salt, d.accounts[i].pin_hash)
             THEN Result(d, FALSE, "Incorrect PIN.")
        ELSE LET d1 == SetBalance(d, i, FSub(d.accounts[i].balance, amt))
                 d2 == record_tx(d1, i, "withdraw", amt, Note("withdraw via CLI", <<>>))
             IN  Result(d2, TRUE, "Withdrawal successful.")

\* mutant of withdraw: the withdrawal without the PIN check
withdraw_no_pin(d, acc_no, pin, amtText) ==
    LET i == find_account(d, acc_no)
        amt == ParseFloat(amtText)
    IN  IF i = 0 THEN Result(d, FALSE, "Account not found.")
        ELSE IF amt = ValueError THEN Result(d, FALSE, "Invalid amount.")
        ELSE IF FLe(amt, Fin(0)) THEN Result(d, FALSE, "Amount must be positive.")
        ELSE IF FGt(amt, d.accounts[i].balance)
             THEN Result(d, FALSE, "Insufficient balance.")
        ELSE LET d1 == SetBalance(d, i, FSub(d.accounts[i].balance, amt))
                 d2 == record_tx(d1, i, "withdraw", amt, Note("withdraw via CLI", <<>>))
             IN  Result(d2, TRUE, "Withdrawal successful.")

withdraw(d, acc_no, pin, amtText) ==
    LET i == find_account(d, acc_no)
        amt == ParseFloat(amtText)
    IN  IF i = 0 THEN Result(d, FALSE, "Account not found.")
        ELSE IF ~verify_pin(pin, d.accounts[i].pin_salt, d.accounts[i].pin_hash)
             THEN Result(d, FALSE, "Incorrect PIN.")
        ELSE IF amt = ValueError THEN Result(d, FALSE, "Invalid amount.")
        ELSE IF FLe(amt, Fin(0)) THEN Result(d, FALSE, "Amount must be positive.")
        ELSE IF FGt(amt, d.accounts[i].balance)
             THEN Result(d, FALSE, "Insufficient balance.")
        ELSE LET d1 == SetBalance(d, i, FSub(d.accounts[i].balance, amt))
                 d2 == record_tx(d1, i, "withdraw", amt, Note("withdraw via CLI", <<>>))
             IN  Result(d2, TRUE, "Withdrawal successful.")

CliWithdraw(acc_no, pin, amtText) ==
    /\ proc = "cli"
    /\ Run(withdraw(db, acc_no, pin, amtText))
    /\ UNCHANGED proc

(***************************************************************************)
(* main.py: transfer                                                       *)
(***************************************************************************)
\* the four mutations of a transfer, in the order of the code; i and j may
\* be the same account
ApplyTransfer(d, i, j, amt, from_acc, to_acc) ==
    LET d1 == SetBalance(d, i, FSub(d.accounts[i].balance, amt))
        d2 == SetBalance(d1, j, FAdd(d1.accounts[j].balance, amt))
        d3 == record_tx(d2, i, "transfer_out", amt, Note("to", <<to_acc>>))
    IN  record_tx(d3, j, "transfer_in", amt, Note("from", <<from_acc>>))

transfer(d, from_acc, pin, to_acc, amtText) ==
    LET i == find_account(d, from_acc)
        j == find_account(d, to_acc)
        amt == ParseFloat(amtText)
    IN  IF i = 0 THEN Result(d, FALSE, "Source account not found.")
        ELSE IF ~verify_pin(pin, d.accounts[i].pin_salt, d.accounts[i].pin_hash)
             THEN Result(d, FALSE, "Incorrect PIN.")
        ELSE IF j = 0 THEN Result(d, FALSE, "Destination account not found.")
        ELSE IF to_acc = from_acc
             THEN Result(d, FALSE, "Cannot transfer to the same account.")
        ELSE IF amt = ValueError THEN Result(d, FALSE, "Invalid amount.")
        ELSE IF FLe(amt, Fin(0)) THEN Result(d, FALSE, "Amount must be positive.")
        ELSE IF FGt(amt, d.accounts[i].balance)
             THEN Result(d, FALSE, "Insufficient balance.")
        ELSE Result(ApplyTransfer(d, i, j, amt, from_acc, to_acc), TRUE,
                    "Transfer completed successfully.")

CliTransfer(from_acc, pin, to_acc, amtText) ==
    /\ proc = "cli"
    /\ Run(transfer(db, from_acc, pin, to_acc, amtText))
    /\ UNCHANGED proc

(***************************************************************************)
(* main.py: calc_interest                                                  *)
(***************************************************************************)
calc_interest(d, acc_no, rateText, yearsText, apply_now) ==
    LET i == find_account(d, acc_no)
        rate == ParseFloat(rateText)
        years == ParseFloat(yearsText)
    IN  IF i = 0 THEN Result(d, FALSE, "Account not found.")
        ELSE IF rate = ValueError \/ years = ValueError
             THEN Result(d, FALSE, "Invalid input.")
        ELSE IF FLt(rate, Fin(0)) \/ FLe(years, Fin(0))
             THEN Result(d, FALSE, "Rate must be >=0 and years > 0.")
        ELSE LET principal == d.accounts[i].balance
                 interest == FMul(FMul(principal, FDiv100(rate)), years)
             IN  IF apply_now = "y"
                 THEN LET d1 == SetBalance(d, i, FAdd(d.accounts[i].balance, interest))
                          d2 == record_tx(d1, i, "interest", interest,
                                            Note("% for yrs", <<rateText, yearsText>>))
                      IN  ResultVal(d2, TRUE, "Interest applied.", interest)
                 ELSE ResultVal(d, FALSE, "Interest for yrs", interest)

CliInterest(acc_no, rateText, yearsText, apply_now) ==
    /\ proc = "cli"
    /\ Run(calc_interest(db, acc_no, rateText, yearsText, apply_now))
    /\ UNCHANGED proc

(***************************************************************************)
(* main.py: create_account                                                 *)
(***************************************************************************)
\* the retry loop over the candidates: the first candidate no account has,
\* or None when all ten collide
RECURSIVE GenLoop(_, _, _)
GenLoop(d, cands, i) ==
    IF i > Attempts THEN None
    ELSE IF find_account(d, cands[i]) = 0 THEN cands[i]
    ELSE GenLoop(d, cands, i + 1)

\* the fields typed into a create-account form
Form(name, age, mobile, aadhaar, pan, pin) ==
    [name |-> name, age |-> age, mobile |-> mobile, aadhaar |-> aadhaar,
     pan |-> pan, pin |-> pin]

ValidForm == Form("Asha", "30", "9876543210", "123456789012", "ABCDE12345", "1234")

\* the forms of the model: the valid one, and each with one field changed
Forms ==
    {ValidForm}
    \cup { [ValidForm EXCEPT !.name = x] : x \in NameTexts }
    \cup { [ValidForm EXCEPT !.age = x] : x \in AgeTexts }
    \cup { [ValidForm EXCEPT !.mobile = x] : x \in MobileTexts }
    \cup { [ValidForm EXCEPT !.aadhaar = x] : x \in AadhaarTexts }
    \cup { [ValidForm EXCEPT !.pan = x] : x \in PanTexts }
    \cup { [ValidForm EXCEPT !.pin = x] : x \in NewPinTexts }

create_account(d, f, cands, salt) ==
    LET age == ParseInt(f.age)
        acc_no == GenLoop(d, cands, 1)
        h == hash_pin(f.pin, salt)
    IN  IF f.name = "" THEN Result(d, FALSE, "Name cannot be empty.")
        ELSE IF age = ValueError THEN Result(d, FALSE, "Invalid age.")
        ELSE IF FLt(age, Fin(18)) THEN Result(d, FALSE, "Must be 18+ to open account.")
        ELSE IF ~(IsDigit(f.mobile) /\ StrLen(f.mobile) = 10)
             THEN Result(d, FALSE, "Invalid mobile.")
        ELSE IF ~(IsDigit(f.aadhaar) /\ StrLen(f.aadhaar) = 12)
             THEN Result(d, FALSE, "Invalid Aadhaar.")
        ELSE IF StrLen(f.pan) # 10 THEN Result(d, FALSE, "Invalid PAN.")
        ELSE IF ~(IsDigit(f.pin) /\ StrLen(f.pin) = 4)
             THEN Result(d, FALSE, "PIN must be 4 digits.")
        ELSE IF acc_no = None
             THEN Result(d, FALSE, "Failed to generate account number. Try again later.")
        ELSE LET acct == [account_no |-> acc_no,
                          name |-> f.name,
                          age |-> age,
                          mobile |-> f.mobile,
                          aadhaar |-> f.aadhaar,
                          pan |-> f.pan,
                          pin_salt |-> h.salt,
                          pin_hash |-> h.hashed,
                          balance |-> Fin(0),
                          transactions |-> <<>>,
                          created_at |-> Now]
             IN  Result([d EXCEPT !.accounts = Append(@, acct)], TRUE,
                        "Account created successfully!")

CliCreateAccount(f, cands, salt) ==
    /\ proc = "cli"
    /\ Run(create_account(db, f, cands, salt))
    /\ UNCHANGED proc

(***************************************************************************)
(* main.py: admin_login and admin_panel                                    *)
(***************************************************************************)
\* typed at "Admin username" and "Admin password"
AdminLogins == {<<"roshan", "roshan8084">>, <<"root", "secret">>, <<"roshan", "secret">>}
\* typed at "New admin username" and "New admin password"
NewAdminNames == {"", "root"}
NewAdminPasswords == {"", "secret"}

admin_login(d, username, password) ==
    username = d.admin.username /\ password = d.admin.password

\* db["accounts"].remove(a): the list without its element at index i
RemoveAt(accts, i) ==
    [n \in 1..(Len(accts) - 1) |-> IF n < i THEN accts[n] ELSE accts[n + 1]]

\* admin panel choice 3
\* what is typed at the confirmation prompt of a deletion
ConfirmTexts == {"DELETE", "delete"}

\* a deletion that does not compare the confirmation with DELETE
delete_account_unconfirmed(d, acc_no, confirm) ==
    LET i == find_account(d, acc_no)
    IN  IF i = 0 THEN Result(d, FALSE, "Not found.")
        ELSE Result([d EXCEPT !.accounts = RemoveAt(@, i)], TRUE, "Account deleted.")

delete_account(d, acc_no, confirm) ==
    LET i == find_account(d, acc_no)
    IN  IF i = 0 THEN Result(d, FALSE, "Not found.")
        ELSE IF confirm = "DELETE"
             THEN Result([d EXCEPT !.accounts = RemoveAt(@, i)], TRUE, "Account deleted.")
        ELSE Result(d, FALSE, "Deletion aborted.")

\* mutant of change_admin: the new credentials are set but not saved
change_admin_unsaved(d, un, pw) ==
    IF un # "" /\ pw # ""
    THEN Result([d EXCEPT !.admin = [username |-> un, password |-> pw]], FALSE,
                "Admin credentials updated.")
    ELSE Result(d, FALSE, "Invalid input.")

\* admin panel choice 4
change_admin(d, un, pw) ==
    IF un # "" /\ pw # ""
    THEN Result([d EXCEPT !.admin = [username |-> un, password |-> pw]], TRUE,
                "Admin credentials updated.")
    ELSE Result(d, FALSE, "Invalid input.")

\* admin panel choice 5: the export is written to a file of its own; the
\* document and the file at DB_PATH are not written
export_db(d) == Result(d, FALSE, "DB exported")

\* main menu choice 8, admin_panel: the menu loop is entered only after
\* admin_login; r is what the choice made in the loop does.  One call of
\* admin_panel is modelled as the login, one choice and choice 7 (back): a
\* longer stay in the loop is a sequence of these, the login changing nothing.
admin_panel(d, username, password, r) ==
    IF admin_login(d, username, password) THEN r
    ELSE Result(d, FALSE, "Admin auth failed.")

CliAdminDelete(username, password, acc_no, confirm) ==
    /\ proc = "cli"
    /\ Run(admin_panel(db, username, password, delete_account(db, acc_no, confirm)))
    /\ UNCHANGED proc

CliAdminChange(username, password, un, pw) ==
    /\ proc = "cli"
    /\ Run(admin_panel(db, username, password, change_admin(db, un, pw)))
    /\ UNCHANGED proc

CliAdminExport(username, password) ==
    /\ proc = "cli"
    /\ Run(admin_panel(db, username, password, export_db(db)))
    /\ UNCHANGED proc

\* admin panel choices 1 (list), 2 (view one account) and 6 (totals): they
\* print from the document; the list reads a['created_at'] of every account
admin_show(d, choice, acc_no) ==
    CASE choice = "1" -> IF \E i \in 1..Len(d.accounts) : d.accounts[i].created_at = Absent
                         THEN Result(d, FALSE, "KeyError")
                         ELSE Result(d, FALSE, "Total accounts:")
      [] choice = "2" -> IF find_account(d, acc_no) = 0 THEN Result(d, FALSE, "Not found.")
                         ELSE Result(d, FALSE, "safe_show")
      [] choice = "6" -> Result(d, FALSE, "Total deposits across bank:")

\* the choice typed in the panel and, for choice 2, the account number
ShowChoices == {<<"1", "">>, <<"6", "">>, <<"2", "AAAA000001">>, <<"2", "ZZZZ999999">>}

CliAdminShow(username, password, choice, acc_no) ==
    /\ proc = "cli"
    /\ Run(admin_panel(db, username, password, admin_show(db, choice, acc_no)))
    /\ UNCHANGED proc

\* main menu choice 5
show_details(d, acc_no, pin) ==
    LET i == find_account(d, acc_no)
    IN  IF i = 0 THEN Result(d, FALSE, "Account not found.")
        ELSE IF ~verify_pin(pin, d.accounts[i].pin_salt, d.accounts[i].pin_hash)
             THEN Result(d, FALSE, "Incorrect PIN.")
        ELSE IF d.accounts[i].created_at = Absent THEN Result(d, FALSE, "KeyError")
        ELSE Result(d, FALSE, "Recent Transactions:")

CliShowDetails(acc_no, pin) ==
    /\ proc = "cli"
    /\ Run(show_details(db, acc_no, pin))
    /\ UNCHANGED proc

\* main menu choice 9
show_all_accounts(d) ==
    IF d.accounts = <<>> THEN Result(d, FALSE, "No accounts yet.")
    ELSE Result(d, FALSE, "ALL ACCOUNTS")

CliShowAll ==
    /\ proc = "cli"
    /\ Run(show_all_accounts(db))
    /\ UNCHANGED proc

(***************************************************************************)
(* app.py: the form UI.  Streamlit runs the whole script again on every    *)
(* interaction, so each handler starts from db = load_db(); st.button is   *)
(* True only in the run that follows a click on that button.               *)
(***************************************************************************)
\* the forms typed into the UI: Age is a number_input with min_value=18,
\* and the name is not checked
UiForms == { f \in Forms : f.age = "30" /\ f.name # "" }

ui_create_account(d, f, cands, salt) ==
    LET age == ParseInt(f.age)
        acc_no == GenLoop(d, cands, 1)
        h == hash_pin(f.pin, salt)
    IN  IF ~(IsDigit(f.mobile) /\ StrLen(f.mobile) = 10)
        THEN Result(d, FALSE, "Invalid mobile number")
        ELSE IF ~(IsDigit(f.aadhaar) /\ StrLen(f.aadhaar) = 12)
             THEN Result(d, FALSE, "Invalid Aadhaar")
        ELSE IF StrLen(f.pan) # 10 THEN Result(d, FALSE, "Invalid PAN")
        ELSE IF ~(IsDigit(f.pin) /\ StrLen(f.pin) = 4)
             THEN Result(d, FALSE, "PIN must be 4 digits")
        ELSE LET acct == [account_no |-> acc_no,
                          name |-> f.name,
                          age |-> age,
                          mobile |-> f.mobile,
                          aadhaar |-> f.aadhaar,
                          pan |-> f.pan,
                          pin_salt |-> h.salt,
                          pin_hash |-> h.hashed,
                          balance |-> Fin(0),
                          transactions |-> <<>>,
                          created_at |-> Absent]
             IN  Result([d EXCEPT !.accounts = Append(@, acct)], TRUE,
                        "Account Created!")

UiCreateAccount(f, cands, salt) ==
    /\ proc = "ui"
    /\ Run(ui_create_account(load_db, f, cands, salt))
    /\ UNCHANGED proc

ui_deposit(d, acc_no, amount) ==
    LET i == find_account(d, acc_no)
    IN  IF i # 0
        THEN LET d1 == SetBalance(d, i, FAdd(d.accounts[i].balance, amount))
                 d2 == record_tx(d1, i, "deposit", amount, Note("", <<>>))
             IN  Result(d2, TRUE, "Deposit Successful!")
        ELSE Result(d, FALSE, "Account not found")

UiDeposit(acc_no, amount) ==
    /\ proc = "ui"
    /\ Run(ui_deposit(load_db, acc_no, amount))
    /\ UNCHANGED proc

\* the Withdraw button without the comparison of the amount with the balance
ui_withdraw_no_funds_check(d, acc_no, pin, amount) ==
    LET i == find_account(d, acc_no)
    IN  IF i = 0 THEN Result(d, FALSE, "Account not found")
        ELSE IF ~verify_pin(pin, d.accounts[i].pin_salt, d.accounts[i].pin_hash)
             THEN Result(d, FALSE, "Incorrect PIN!")
        ELSE LET d1 == SetBalance(d, i, FSub(d.accounts[i].balance, amount))
                 d2 == record_tx(d1, i, "withdraw", amount, Note("", <<>>))
             IN  Result(d2, TRUE, "Withdrawal Successful!")

ui_withdraw(d, acc_no, pin, amount) ==
    LET i == find_account(d, acc_no)
    IN  IF i = 0 THEN Result(d, FALSE, "Account not found")
        ELSE IF ~verify_pin(pin, d.accounts[i].pin_salt, d.accounts[i].pin_hash)
             THEN Result(d, FALSE, "Incorrect PIN!")
        ELSE IF FGt(amount, d.accounts[i].balance)
             THEN Result(d, FALSE, "Insufficient balance")
        ELSE LET d1 == SetBalance(d, i, FSub(d.accounts[i].balance, amount))
                 d2 == record_tx(d1, i, "withdraw", amount, Note("", <<>>))
             IN  Result(d2, TRUE, "Withdrawal Successful!")

UiWithdraw(acc_no, pin, amount) ==
    /\ proc = "ui"
    /\ Run(ui_withdraw(load_db, acc_no, pin, amount))
    /\ UNCHANGED proc

ui_transfer(d, f_acc, pin, t_acc, amount) ==
    LET a == find_account(d, f_acc)
        b == find_account(d, t_acc)
    IN  IF a = 0 THEN Result(d, FALSE, "Source account not found")
        ELSE IF b = 0 THEN Result(d, FALSE, "Destination account not found")
        ELSE IF ~verify_pin(pin, d.accounts[a].pin_salt, d.accounts[a].pin_hash)
             THEN Result(d, FALSE, "Wrong PIN")
        ELSE IF FGt(amount, d.accounts[a].balance)
             THEN Result(d, FALSE, "Insufficient balance")
        ELSE Result(ApplyTransfer(d, a, b, amount, f_acc, t_acc), TRUE,
                    "Transfer Successful")

UiTransfer(f_acc, pin, t_acc, amount) ==
    /\ proc = "ui"
    /\ Run(ui_transfer(load_db, f_acc, pin, t_acc, amount))
    /\ UNCHANGED proc

\* the button clicked before a run of the Interest Calculator page
UiInterestButtons == {"Calculate", "Apply to Account"}

\* "Apply to Account" is created inside the block of "Calculate": its block
\* runs only in a run where both buttons read True
ui_interest(d, acc_no, rate, years, clicked) ==
    LET i == find_account(d, acc_no)
    IN  IF clicked # "Calculate" THEN Result(d, FALSE, "")
        ELSE IF i = 0 THEN Result(d, FALSE, "Account not found")
        ELSE LET interest ==
                     FMul(FMul(d.accounts[i].balance, FDiv100(rate)), years)
             IN  IF clicked = "Apply to Account"
                 THEN LET d1 == SetBalance(d, i, FAdd(d.accounts[i].balance, interest))
                          d2 == record_tx(d1, i, "interest", interest, Note("", <<>>))
                      IN  ResultVal(d2, TRUE, "Interest Applied", interest)
                 ELSE ResultVal(d, FALSE, "Interest Amount", interest)

UiInterest(acc_no, rate, years, clicked) ==
    /\ proc = "ui"
    /\ Run(ui_interest(load_db, acc_no, rate, years, clicked))
    /\ UNCHANGED proc

\* the Admin Panel page only shows the accounts
ui_admin(d, username, password) ==
    Result(d, FALSE, IF admin_login(d, username, password)
                     THEN "Admin Login Successful" ELSE "Invalid admin credentials")

UiAdminLogin(username, password) ==
    /\ proc = "ui"
    /\ Run(ui_admin(load_db, username, password))
    /\ UNCHANGED proc

\* the Get Details button
ui_details(d, acc_no, pin) ==
    LET i == find_account(d, acc_no)
    IN  IF i # 0 /\ verify_pin(pin, d.accounts[i].pin_salt, d.accounts[i].pin_hash)
        THEN Result(d, FALSE, "st.json")
        ELSE Result(d, FALSE, "Invalid account or PIN")

UiDetails(acc_no, pin) ==
    /\ proc = "ui"
    /\ Run(ui_details(load_db, acc_no, pin))
    /\ UNCHANGED proc

(***************************************************************************)
(* Search: main.py search_menu and search_accounts, utils.py               *)
(* search_accounts, app.py Search Accounts. A text is looked at character  *)
(* by character.                                                           *)
(***************************************************************************)
QueryTexts == {"", " ", " ASH ", "bbbb", "zz"}

\* the characters of the texts of the model; None has no characters to give
Chars(t) ==
    CASE t = "" -> <<>>
      [] t = " " -> <<" ">>
      [] t = " ASH " -> <<" ", "A", "S", "H", " ">>
      [] t = "bbbb" -> <<"b", "b", "b", "b">>
      [] t = "zz" -> <<"z", "z">>
      [] t = "Asha" -> <<"A", "s", "h", "a">>
      [] t = "AAAA000001" -> <<"A", "A", "A", "A", "0", "0", "0", "0", "0", "1">>
      [] t = "BBBB000002" -> <<"B", "B", "B", "B", "0", "0", "0", "0", "0", "2">>

\* str.lower
LowerChar(c) ==
    CASE c = "A" -> "a"
      [] c = "B" -> "b"
      [] c = "H" -> "h"
      [] c = "S" -> "s"
      [] OTHER -> c

Lower(cs) == [n \in 1..Len(cs) |-> LowerChar(cs[n])]

\* str.strip
RECURSIVE Strip(_)
Strip(cs) ==
    IF cs = <<>> THEN cs
    ELSE IF Head(cs) = " " THEN Strip(Tail(cs))
    ELSE IF cs[Len(cs)] = " " THEN Strip(SubSeq(cs, 1, Len(cs) - 1))
    ELSE cs

\* q in s
Contains(q, cs) ==
    \E k \in 0..(Len(cs) - Len(q)) : SubSeq(cs, k + 1, k + Len(q)) = q

\* what a search gives: the accounts found, or the exception it raises
Found(accts) == [err |-> "", found |-> accts]
AttributeError == [err |-> "AttributeError", found |-> <<>>]

\* search_accounts on the characters of the query: the accounts that match,
\* in document order; a["account_no"].lower() raises on the None of an
\* account whose name does not already match
search_accounts(d, qs) ==
    LET q == Lower(Strip(qs))
        ByName(a) == Contains(q, Lower(Chars(a.name)))
    IN  IF \E i \in 1..Len(d.accounts) :
              ~ByName(d.accounts[i]) /\ d.accounts[i].account_no = None
        THEN AttributeError
        ELSE Found(SelectSeq(d.accounts,
               LAMBDA a : ByName(a) \/ Contains(q, Lower(Chars(a.account_no)))))

\* main.py search_menu
search_menu(d, query) ==
    LET q == Strip(Chars(query))
        results == search_accounts(d, q)
    IN  IF q = <<>> THEN ResultVal(d, FALSE, "Empty query.", Found(<<>>))
        ELSE IF results = AttributeError THEN ResultVal(d, FALSE, "AttributeError", results)
        ELSE IF results.found = <<>> THEN ResultVal(d, FALSE, "No matches.", results)
        ELSE ResultVal(d, FALSE, "Found match(es):", results)

CliSearch(query) ==
    /\ proc = "cli"
    /\ Run(search_menu(db, query))
    /\ UNCHANGED proc

\* app.py: the Search button
ui_search(d, query) ==
    LET results == search_accounts(d, Chars(query))
    IN  IF results = AttributeError THEN ResultVal(d, FALSE, "AttributeError", results)
        ELSE IF results.found # <<>> THEN ResultVal(d, FALSE, "", results)
        ELSE ResultVal(d, FALSE, "No results found", results)

UiSearch(query) ==
    /\ proc = "ui"
    /\ Run(ui_search(load_db, query))
    /\ UNCHANGED proc

(***************************************************************************)
(* The files and the processes of the store specification. A file is the   *)
(* document written into it and how much of the text is there: json.dump   *)
(* writes the text piece by piece, and only the whole text parses.         *)
(***************************************************************************)
Procs == {"cli", "ui"}

NoFile == [doc |-> FreshDb, part |-> "nofile"]

\* open(..., "w"): the file exists and is empty
Opened(d) == [doc |-> d, part |-> "empty"]

\* a file that json.load rejects
Unparsable == [doc |-> FreshDb, part |-> "partial"]

\* DB_PATH, DB_PATH.with_suffix(".tmp") and the .corrupt.<timestamp>.json name
NoDisk == [path |-> NoFile, tmp |-> NoFile, corrupt |-> NoFile]

\* a process that is not running; out is the last thing it showed
Off(out) ==
    [pc |-> "off", mem |-> FreshDb, pre |-> FreshDb, say |-> "", then |-> "off",
     out |-> out]

(***************************************************************************)
(* A front end is started (main() of main.py, or the first run of app.py): *)
(* it loads the document from the file.                                    *)
(***************************************************************************)
Start(fe) ==
    /\ proc # fe
    /\ proc' = fe
    /\ db' = load_db
    /\ UNCHANGED <<file, disk, ps>>

Init ==
    /\ db = FreshDb
    /\ file = FreshDb
    /\ proc \in {"cli", "ui"}
    \* the files and processes of the store specification take no part here
    /\ disk = <<>>
    /\ ps = <<>>

Next ==
    \/ \E a \in AccTexts, t \in AmountTexts : CliDeposit(a, t)
    \/ \E a \in AccTexts, p \in PinTexts, t \in AmountTexts : CliWithdraw(a, p, t)
    \/ \E r \in Routes, p \in PinTexts, t \in AmountTexts :
          CliTransfer(r[1], p, r[2], t)
    \/ \E a \in AccTexts, t \in InterestTexts : CliInterest(a, t[1], t[2], t[3])
    \/ \E f \in Forms, c \in CandSeqs, s \in Salts : CliCreateAccount(f, c, s)
    \/ \E l \in AdminLogins, a \in AccTexts, c \in ConfirmTexts :
          CliAdminDelete(l[1], l[2], a, c)
    \/ \E l \in AdminLogins, u \in NewAdminNames, p \in NewAdminPasswords :
          CliAdminChange(l[1], l[2], u, p)
    \/ \E l \in AdminLogins : CliAdminExport(l[1], l[2])
    \/ \E f \in UiForms, c \in CandSeqs, s \in Salts : UiCreateAccount(f, c, s)
    \/ \E a \in AccTexts, m \in UiAmounts : UiDeposit(a, m)
    \/ \E a \in AccTexts, p \in PinTexts, m \in UiAmounts : UiWithdraw(a, p, m)
    \/ \E r \in Routes, p \in PinTexts, m \in UiAmounts :
          UiTransfer(r[1], p, r[2], m)
    \/ \E a \in AccTexts, r \in UiRates, y \in UiYears, c \in UiInterestButtons :
          UiInterest(a, r, y, c)
    \/ \E l \in AdminLogins : UiAdminLogin(l[1], l[2])
    \/ \E l \in AdminLogins, c \in ShowChoices : CliAdminShow(l[1], l[2], c[1], c[2])
    \/ \E a \in AccTexts, p \in PinTexts : CliShowDetails(a, p)
    \/ CliShowAll
    \/ \E a \in AccTexts, p \in PinTexts : UiDetails(a, p)
    \/ \E q \in QueryTexts : CliSearch(q)
    \/ \E q \in QueryTexts : UiSearch(q)
    \/ \E fe \in {"cli", "ui"} : Start(fe)

Spec == Init /\ [][Next]_vars

(***************************************************************************)
(* The store specification: the same handlers, with load_db and            *)
(* atomic_write taken step by step, run by two processes that each have    *)
(* their own memory: a session of main.py ("cli") and a script run of      *)
(* app.py ("ui").  A process can be killed at any step and a write can     *)
(* fail.  Two saves in progress at the same time are not part of this      *)
(* specification: a process opens the temporary file only while no other   *)
(* process is between its open and its rename.                             *)
(***************************************************************************)
\* size of a document of the store specification: accounts plus records
MaxStoreDoc == 2

InStoreBounds(d) == Len(d.accounts) + SumTx(d.accounts, 1) <= MaxStoreDoc

\* json.load accepts the text
Parses(f) == f.part = "whole"

\* an atomic_write that opens the database file itself for writing
open_in_place(dk, d) == [dk EXCEPT !.path = Opened(d)]

\* atomic_write: tmp.open("w") creates or truncates the temporary file
tmp_open(dk, d) == [dk EXCEPT !.tmp = Opened(d)]

\* atomic_write: json.dump writes the next piece of the text
tmp_write(dk) ==
    [dk EXCEPT !.tmp.part = CASE @ = "empty" -> "partial"
                              [] @ = "partial" -> "whole"
                              [] OTHER -> @]

\* atomic_write: tmp.replace(path)
tmp_replace(dk) == [dk EXCEPT !.path = dk.tmp, !.tmp = NoFile]

\* main.py load_db: what is in memory, what is on disk, whether the fresh
\* document is to be written, and what is printed
load_db_main(dk) ==
    IF dk.path = NoFile
    THEN [disk |-> dk, mem |-> FreshDb, write |-> TRUE, out |-> ""]
    ELSE IF Parses(dk.path)
    THEN [disk |-> dk, mem |-> dk.path.doc, write |-> FALSE, out |-> ""]
    ELSE [disk |-> [dk EXCEPT !.corrupt = dk.path, !.path = NoFile],
          mem |-> FreshDb, write |-> TRUE, out |-> "[WARN] DB corrupted"]

\* db.py load_db: json.load is not inside a try
load_db_ui(dk) ==
    IF dk.path = NoFile
    THEN [disk |-> dk, mem |-> FreshDb, write |-> TRUE, out |-> ""]
    ELSE IF Parses(dk.path)
    THEN [disk |-> dk, mem |-> dk.path.doc, write |-> FALSE, out |-> ""]
    ELSE [disk |-> dk, mem |-> FreshDb, write |-> FALSE, out |-> "JSONDecodeError"]

\* a process starts and loads the document
Launch(p) ==
    /\ ps[p].pc = "off"
    /\ LET l == IF p = "cli" THEN load_db_main(disk) ELSE load_db_ui(disk)
       IN  /\ disk' = l.disk
           /\ ps' = [ps EXCEPT ![p] =
                       IF l.out = "JSONDecodeError" THEN Off(l.out)
                       ELSE [pc |-> IF l.write THEN "open" ELSE "menu",
                             mem |-> l.mem, pre |-> l.mem, say |-> l.out,
                             then |-> "menu", out |-> l.out]]
    /\ UNCHANGED <<db, file, proc>>

\* the handler calls a process makes in this specification
StoreOps(p, d) ==
    IF p = "cli"
    THEN {deposit(d, "AAAA000001", t) : t \in {"1", "abc"}}
           \cup {create_account(d, ValidForm, c, s) : c \in CandSeqs, s \in Salts}
    ELSE {ui_deposit(d, "AAAA000001", m) : m \in UiAmounts}
           \cup {ui_create_account(d, ValidForm, c, s) : c \in CandSeqs, s \in Salts}
           \cup {Result(d, FALSE, "")}

\* a handler runs up to its call of save_db, or to its end when it saves
\* nothing; the script run of app.py ends with the handler
Operate(p, r) ==
    /\ ps[p].pc = "menu"
    /\ InStoreBounds(r.db)
    /\ ps' = [ps EXCEPT ![p] =
                IF r.saved
                THEN [pc |-> "open", mem |-> r.db, pre |-> ps[p].mem,
                      say |-> r.out.msg,
                      then |-> IF p = "cli" THEN "menu" ELSE "off", out |-> ""]
                ELSE IF p = "cli" THEN [@ EXCEPT !.out = r.out.msg]
                ELSE Off(r.out.msg)]
    /\ UNCHANGED <<db, file, proc, disk>>

TmpOpen(p) ==
    /\ ps[p].pc = "open"
    /\ \A q \in Procs \ {p} : ps[q].pc \notin {"write", "rename"}
    /\ disk' = tmp_open(disk, ps[p].mem)
    /\ ps' = [ps EXCEPT ![p].pc = "write"]
    /\ UNCHANGED <<db, file, proc>>

TmpWrite(p) ==
    /\ ps[p].pc = "write"
    /\ disk' = tmp_write(disk)
    /\ ps' = [ps EXCEPT ![p].pc = IF tmp_write(disk).tmp.part = "whole"
                                  THEN "rename" ELSE "write"]
    /\ UNCHANGED <<db, file, proc>>

\* a save that gives up when the file no longer holds what the process loaded
TmpReplaceIfCurrent(p) ==
    /\ ps[p].pc = "rename"
    /\ disk' = IF disk.path.doc = ps[p].pre THEN tmp_replace(disk) ELSE disk
    /\ ps' = [ps EXCEPT ![p] =
                IF @.then = "menu"
                THEN [pc |-> "menu", mem |-> @.mem, pre |-> @.mem, say |-> "",
                      then |-> "menu", out |-> @.say]
                ELSE Off(@.say)]
    /\ UNCHANGED <<db, file, proc>>

\* the rename, and the return from save_db to the caller
TmpReplace(p) ==
    /\ ps[p].pc = "rename"
    /\ disk' = tmp_replace(disk)
    /\ ps' = [ps EXCEPT ![p] =
                IF @.then = "menu"
                THEN [pc |-> "menu", mem |-> @.mem, pre |-> @.mem, say |-> "",
                      then |-> "menu", out |-> @.say]
                ELSE Off(@.say)]
    /\ UNCHANGED <<db, file, proc>>

\* the process is killed, or leaves
Crash(p) ==
    /\ ps[p].pc # "off"
    /\ ps' = [ps EXCEPT ![p] = Off("")]
    /\ UNCHANGED <<db, file, proc, disk>>

\* a caller that catches the OSError and goes on with the document in memory
SaveFailsCaught(p) ==
    /\ ps[p].pc \in {"open", "write", "rename"}
    /\ ps' = [ps EXCEPT ![p] = [@ EXCEPT !.pc = "menu", !.out = "OSError"]]
    /\ UNCHANGED <<db, file, proc, disk>>

\* tmp.open, f.write or tmp.replace raises OSError.  No caller catches it:
\* main() ends with the traceback, the script run of app.py is aborted.
SaveFails(p) ==
    /\ ps[p].pc \in {"open", "write", "rename"}
    /\ ps' = [ps EXCEPT ![p] = Off("OSError")]
    /\ UNCHANGED <<db, file, proc, disk>>

StoreInit ==
    /\ db = FreshDb
    /\ file = FreshDb
    /\ proc = "cli"
    /\ disk \in {NoDisk, [NoDisk EXCEPT !.path = Unparsable]}
    /\ ps = [p \in Procs |-> Off("")]

StoreNext ==
    \E p \in Procs :
        \/ Launch(p)
        \/ \E r \in StoreOps(p, ps[p].mem) : Operate(p, r)
        \/ TmpOpen(p)
        \/ TmpWrite(p)
        \/ TmpReplace(p)
        \/ Crash(p)
        \/ SaveFails(p)

StoreSpec == StoreInit /\ [][StoreNext]_vars

(***************************************************************************)
(* Two saves at once.  Both processes name the same temporary file,        *)
(* DB_PATH with the suffix .tmp.  A name of the directory refers to an     *)
(* inode; an open file refers to the inode it was opened on, whatever the  *)
(* names do afterwards, and writes at its own offset.  In this             *)
(* specification disk holds the two names and the inodes, and ps holds for *)
(* each process its position in atomic_write, the document it saves, its   *)
(* open file and what save_db ended with.                                  *)
(***************************************************************************)
Inodes == 1..4
NoInode == 0

\* json.dump writes the text of the document piece by piece
Pieces(d) == <<[doc |-> d, piece |-> 1], [doc |-> d, piece |-> 2]>>
\* bytes never written, below the offset of a later write
Hole == [doc |-> FreshDb, piece |-> 0]

\* the documents a process may be saving
SaveDocs ==
    {FreshDb, change_admin(FreshDb, "root", "secret").db}
      \cup {create_account(FreshDb, ValidForm, c, s).db : c \in CandSeqs, s \in Salts}

\* the inodes a name or an open file refers to
InUse(dk, pr) ==
    ({dk.path, dk.tmp} \cup {pr[p].fd : p \in Procs}) \ {NoInode}

\* an inode without name and without open file is gone
Reclaim(dk, pr) ==
    [dk EXCEPT !.inodes = [n \in Inodes |-> IF n \in InUse(dk, pr) THEN @[n] ELSE <<>>]]

\* tmp.open("w"): the file named .tmp is created if there is none, cut to
\* length 0 if there is one
open_w(dk, pr) ==
    IF dk.tmp = NoInode
    THEN LET n == CHOOSE m \in Inodes : m \notin InUse(dk, pr)
         IN  [dk EXCEPT !.tmp = n, !.inodes[n] = <<>>]
    ELSE [dk EXCEPT !.inodes[dk.tmp] = <<>>]

\* f.write of piece k at the offset of the open file: the piece replaces
\* what is there, or lengthens the file, over a hole if the file is shorter
write_at(content, k, piece) ==
    [n \in 1..(IF Len(content) > k THEN Len(content) ELSE k) |->
        IF n = k THEN piece
        ELSE IF n <= Len(content) THEN content[n]
        ELSE Hole]

\* tmp.replace(path): the name DB_PATH now refers to the inode .tmp named
replace(dk) == [dk EXCEPT !.path = dk.tmp, !.tmp = NoInode]

Idle(out) == [pc |-> "idle", mem |-> FreshDb, fd |-> NoInode, pos |-> 0, out |-> out]

\* save_db(db) is called
SaveBegins(p, d) ==
    /\ ps[p].pc = "idle"
    /\ ps' = [ps EXCEPT ![p] = [Idle("") EXCEPT !.pc = "open", !.mem = d]]
    /\ UNCHANGED <<db, file, proc, disk>>

RaceOpen(p) ==
    /\ ps[p].pc = "open"
    /\ LET dk == open_w(disk, ps)
       IN  /\ disk' = dk
           /\ ps' = [ps EXCEPT ![p].pc = "write", ![p].fd = dk.tmp]
    /\ UNCHANGED <<db, file, proc>>

\* the next piece is written; after the last one the file is closed
RaceWrite(p) ==
    /\ ps[p].pc = "write"
    /\ LET k == ps[p].pos + 1
           last == k = Len(Pieces(ps[p].mem))
           pr == [ps EXCEPT ![p].pos = k,
                            ![p].pc = IF last THEN "rename" ELSE "write",
                            ![p].fd = IF last THEN NoInode ELSE @]
           dk == [disk EXCEPT !.inodes[ps[p].fd] =
                                 write_at(@, k, Pieces(ps[p].mem)[k])]
       IN  /\ ps' = pr
           /\ disk' = Reclaim(dk, pr)
    /\ UNCHANGED <<db, file, proc>>

\* the rename: os.replace raises FileNotFoundError when nothing is named
\* .tmp; no caller catches it
RaceReplace(p) ==
    /\ ps[p].pc = "rename"
    /\ IF disk.tmp = NoInode
       THEN /\ ps' = [ps EXCEPT ![p] = Idle("FileNotFoundError")]
            /\ disk' = disk
       ELSE /\ ps' = [ps EXCEPT ![p] = Idle("saved")]
            /\ disk' = Reclaim(replace(disk), [ps EXCEPT ![p] = Idle("saved")])
    /\ UNCHANGED <<db, file, proc>>

\* load_db has written the fresh document; no save is under way
RaceInit ==
    /\ db = FreshDb
    /\ file = FreshDb
    /\ proc = "cli"
    /\ disk = [path |-> 1, tmp |-> NoInode,
               inodes |-> [n \in Inodes |-> IF n = 1 THEN Pieces(FreshDb) ELSE <<>>]]
    /\ ps = [p \in Procs |-> Idle("")]

RaceNext ==
    \E p \in Procs :
        \/ \E d \in SaveDocs : SaveBegins(p, d)
        \/ RaceOpen(p)
        \/ RaceWrite(p)
        \/ RaceReplace(p)

RaceSpec == RaceInit /\ [][RaceNext]_vars

(***************************************************************************)
(* Vocabulary of the properties.                                           *)
(***************************************************************************)
\* the failure kind (section 7 of the specification) of a message of the code
Kind(msg) ==
    CASE msg \in {"Account not found.", "Source account not found.",
                  "Destination account not found.", "Account not found",
                  "Source account not found", "Destination account not found",
                  "Not found."}
              -> "AccountNotFound"
      [] msg \in {"Incorrect PIN.", "Incorrect PIN!", "Wrong PIN"} -> "InvalidPin"
      [] msg \in {"Invalid amount.", "Amount must be positive."} -> "InvalidAmount"
      [] msg \in {"Insufficient balance.", "Insufficient balance"} -> "InsufficientFunds"
      [] msg = "Cannot transfer to the same account." -> "SameAccountTransfer"
      [] msg \in {"Deposit successful.", "Deposit Successful!", "Withdrawal successful.",
                  "Withdrawal Successful!", "Transfer completed successfully.",
                  "Transfer Successful"} -> "Ok"
      [] OTHER -> "Other"

Indices(d) == 1..Len(d.accounts)

IsPrefix(s, t) == Len(s) <= Len(t) /\ \A n \in 1..Len(s) : s[n] = t[n]

\* the PIN verifies against the stored salt and hash of account i of d
PinOk(d, i, pin) ==
    Sha256(SaltChars(d.accounts[i].pin_salt) \o PinChars(pin)) = d.accounts[i].pin_hash

\* a typed amount that is malformed or not positive
BadAmount(amt) == amt = ValueError \/ FLe(amt, Fin(0))

\* account i of e is account i of d with balance b and one more record, of
\* type ty and amount amt, whose balance_after is b; nothing else differs
OneRecordAdded(d, e, i, ty, amt, b) ==
    /\ Len(e.accounts) = Len(d.accounts)
    /\ e.admin = d.admin
    /\ \A k \in Indices(d) : k # i => e.accounts[k] = d.accounts[k]
    /\ [e.accounts[i] EXCEPT !.balance = Fin(0), !.transactions = <<>>]
         = [d.accounts[i] EXCEPT !.balance = Fin(0), !.transactions = <<>>]
    /\ e.accounts[i].balance = b
    /\ Len(e.accounts[i].transactions) = Len(d.accounts[i].transactions) + 1
    /\ IsPrefix(d.accounts[i].transactions, e.accounts[i].transactions)
    /\ LET last == e.accounts[i].transactions[Len(e.accounts[i].transactions)]
       IN  last.type = ty /\ last.amount = amt /\ last.balance_after = b

(***************************************************************************)
(* C1: every account's balance is >= 0 in every reachable state.           *)
(* The code lets it fail: float("nan") passes the check amt <= 0 of the    *)
(* CLI deposit, and the balance becomes NaN, which is not >= 0.            *)
(***************************************************************************)
C1_BalanceNonNegative ==
    \A i \in Indices(db) : FGe(db.accounts[i].balance, Fin(0))

(***************************************************************************)
(* C2: a transfer step keeps source.balance + destination.balance, and     *)
(* either appends both records and changes both balances, or appends no    *)
(* record and changes no balance.                                          *)
(***************************************************************************)
TransferEffect(d, e, from_acc, to_acc) ==
    LET i == find_account(d, from_acc)
        j == find_account(d, to_acc)
    IN  IF i = 0 \/ j = 0 THEN e = d
        ELSE /\ FAdd(e.accounts[i].balance, e.accounts[j].balance)
                  = FAdd(d.accounts[i].balance, d.accounts[j].balance)
             /\ \/ e = d
                \/ /\ e.accounts[i].balance # d.accounts[i].balance
                   /\ e.accounts[j].balance # d.accounts[j].balance
                   /\ \E n \in 1..Len(e.accounts[i].transactions) :
                         /\ n > Len(d.accounts[i].transactions)
                         /\ e.accounts[i].transactions[n].type = "transfer_out"
                   /\ \E n \in 1..Len(e.accounts[j].transactions) :
                         /\ n > Len(d.accounts[j].transactions)
                         /\ e.accounts[j].transactions[n].type = "transfer_in"

C2_TransferConserves ==
    [][\A r \in Routes, p \in PinTexts :
          /\ \A t \in AmountTexts :
                CliTransfer(r[1], p, r[2], t) => TransferEffect(db, db', r[1], r[2])
          /\ \A m \in UiAmounts :
                UiTransfer(r[1], p, r[2], m) => TransferEffect(file, db', r[1], r[2])
      ]_vars

(***************************************************************************)
(* C3: no two accounts of the document have the same account_no.           *)
(***************************************************************************)
C3_UniqueAccountNumbers ==
    \A i \in Indices(db), j \in Indices(db) :
        i # j => db.accounts[i].account_no # db.accounts[j].account_no

(***************************************************************************)
(* C4: a transfer whose source and destination are the same account number *)
(* is rejected and leaves the document unchanged, in both front ends.      *)
(***************************************************************************)
C4_SameAccountRejected ==
    [][\A a \in AccTexts, p \in PinTexts :
          /\ \A t \in AmountTexts :
                CliTransfer(a, p, a, t) => (db' = db /\ file' = file)
          /\ \A m \in UiAmounts :
                UiTransfer(a, p, a, m) => (db' = file /\ file' = file)
      ]_vars

(***************************************************************************)
(* C5: transfer reports the first failing check in the order source        *)
(* lookup, destination lookup, same account, PIN, amount, funds.           *)
(***************************************************************************)
TransferKind(d, from_acc, pin, to_acc, amt) ==
    LET i == find_account(d, from_acc)
        j == find_account(d, to_acc)
    IN  IF i = 0 THEN "AccountNotFound"
        ELSE IF j = 0 THEN "AccountNotFound"
        ELSE IF from_acc = to_acc THEN "SameAccountTransfer"
        ELSE IF ~PinOk(d, i, pin) THEN "InvalidPin"
        ELSE IF BadAmount(amt) THEN "InvalidAmount"
        ELSE IF FGt(amt, d.accounts[i].balance) THEN "InsufficientFunds"
        ELSE "Ok"

C5_TransferCheckOrder ==
    \A r \in Routes, p \in PinTexts :
        /\ \A t \in AmountTexts :
              Kind(transfer(db, r[1], p, r[2], t).out.msg)
                = TransferKind(db, r[1], p, r[2], ParseFloat(t))
        /\ \A m \in UiAmounts :
              Kind(ui_transfer(file, r[1], p, r[2], m).out.msg)
                = TransferKind(file, r[1], p, r[2], m)

(***************************************************************************)
(* C6: withdraw checks, in this order, the account lookup, the PIN, the    *)
(* amount (amount <= 0) and the funds (amount > balance), reports the      *)
(* first check that fails, and succeeds only when all four pass; a         *)
(* success debits the balance and appends one withdraw record.             *)
(***************************************************************************)
WithdrawKind(d, acc_no, pin, amt) ==
    LET i == find_account(d, acc_no)
    IN  IF i = 0 THEN "AccountNotFound"
        ELSE IF ~PinOk(d, i, pin) THEN "InvalidPin"
        ELSE IF BadAmount(amt) THEN "InvalidAmount"
        ELSE IF FGt(amt, d.accounts[i].balance) THEN "InsufficientFunds"
        ELSE "Ok"

WithdrawOutcome(d, r, acc_no, pin, amt) ==
    LET i == find_account(d, acc_no)
        k == WithdrawKind(d, acc_no, pin, amt)
    IN  /\ Kind(r.out.msg) = k
        /\ k = "Ok" =>
             /\ r.saved
             /\ OneRecordAdded(d, r.db, i, "withdraw", amt,
                               FSub(d.accounts[i].balance, amt))

C6_WithdrawCheckOrder ==
    \A a \in AccTexts, p \in PinTexts :
        /\ \A t \in AmountTexts :
              WithdrawOutcome(db, withdraw(db, a, p, t), a, p, ParseFloat(t))
        /\ \A m \in UiAmounts :
              WithdrawOutcome(file, ui_withdraw(file, a, p, m), a, p, m)

\* an account was debited to zero by a withdrawal, and from this state the
\* withdraw handler produces each of the four failures
C6_Witness ==
    /\ \E i \in Indices(db) :
          /\ db.accounts[i].transactions # <<>>
          /\ db.accounts[i].transactions[Len(db.accounts[i].transactions)].type
               = "withdraw"
          /\ db.accounts[i].balance = Fin(0)
    /\ {"AccountNotFound", "InvalidPin", "InvalidAmount", "InsufficientFunds"}
         \subseteq { Kind(withdraw(db, a, p, t).out.msg) :
                       a \in AccTexts, p \in PinTexts, t \in AmountTexts }

(***************************************************************************)
(* C7: an operation whose validation fails (lookup, PIN, amount, funds of  *)
(* deposit, withdraw, transfer, interest; a malformed field or PIN at      *)
(* creation) leaves the whole document as it was, in memory and on file.   *)
(***************************************************************************)
Unchanged(d, r) == r.db = d /\ ~r.saved

TransferFails(d, from_acc, pin, to_acc, amt) ==
    LET i == find_account(d, from_acc)
        j == find_account(d, to_acc)
    IN  IF i = 0 \/ j = 0 THEN TRUE
        ELSE \/ ~PinOk(d, i, pin)
             \/ BadAmount(amt)
             \/ FGt(amt, d.accounts[i].balance)

InterestFails(d, acc_no, rate, years) ==
    \/ find_account(d, acc_no) = 0
    \/ rate = ValueError
    \/ years = ValueError
    \/ FLt(rate, Fin(0))
    \/ FLe(years, Fin(0))

CreateFails(f) ==
    \/ f.name = ""
    \/ ParseInt(f.age) = ValueError
    \/ FLt(ParseInt(f.age), Fin(18))
    \/ ~(IsDigit(f.mobile) /\ StrLen(f.mobile) = 10)
    \/ ~(IsDigit(f.aadhaar) /\ StrLen(f.aadhaar) = 12)
    \/ StrLen(f.pan) # 10
    \/ ~(IsDigit(f.pin) /\ StrLen(f.pin) = 4)

C7_FailureChangesNothing ==
    /\ \A a \in AccTexts :
          /\ \A t \in AmountTexts :
                (find_account(db, a) = 0 \/ BadAmount(ParseFloat(t)))
                   => Unchanged(db, deposit(db, a, t))
          /\ \A m \in UiAmounts :
                find_account(file, a) = 0 => Unchanged(file, ui_deposit(file, a, m))
          /\ \A p \in PinTexts :
                /\ \A t \in AmountTexts :
                      WithdrawKind(db, a, p, ParseFloat(t)) # "Ok"
                         => Unchanged(db, withdraw(db, a, p, t))
                /\ \A m \in UiAmounts :
                      WithdrawKind(file, a, p, m) # "Ok"
                         => Unchanged(file, ui_withdraw(file, a, p, m))
          /\ \A t \in InterestTexts :
                InterestFails(db, a, ParseFloat(t[1]), ParseFloat(t[2]))
                   => Unchanged(db, calc_interest(db, a, t[1], t[2], t[3]))
          /\ \A r \in UiRates, y \in UiYears, c \in UiInterestButtons :
                find_account(file, a) = 0
                   => Unchanged(file, ui_interest(file, a, r, y, c))
    /\ \A r \in Routes, p \in PinTexts :
          /\ \A t \in AmountTexts :
                TransferFails(db, r[1], p, r[2], ParseFloat(t))
                   => Unchanged(db, transfer(db, r[1], p, r[2], t))
          /\ \A m \in UiAmounts :
                TransferFails(file, r[1], p, r[2], m)
                   => Unchanged(file, ui_transfer(file, r[1], p, r[2], m))
    /\ \A c \in CandSeqs, s \in Salts :
          /\ \A f \in Forms :
                CreateFails(f) => Unchanged(db, create_account(db, f, c, s))
          /\ \A f \in UiForms :
                CreateFails(f) => Unchanged(file, ui_create_account(file, f, c, s))

\* two accounts with a history, the first without funds: a withdrawal and a
\* transfer from it, with the right PIN, fail on the funds check
C7_Witness ==
    /\ Len(db.accounts) = 2
    /\ db.accounts[1].account_no = "AAAA000001"
    /\ db.accounts[2].account_no = "BBBB000002"
    /\ db.accounts[1].transactions # <<>>
    /\ db.accounts[1].balance = Fin(0)
    /\ Kind(withdraw(db, "AAAA000001", "1234", "1").out.msg) = "InsufficientFunds"
    /\ Kind(transfer(db, "AAAA000001", "1234", "BBBB000002", "1").out.msg)
         = "InsufficientFunds"
    /\ file = db

(***************************************************************************)
(* C8: a deposit of an amount > 0 into an existing account of balance b    *)
(* succeeds, makes the balance b + amount, appends exactly one deposit     *)
(* record whose balance_after is b + amount, and changes no other account. *)
(***************************************************************************)
C8_DepositEffect ==
    \A a \in AccTexts :
        /\ \A t \in AmountTexts :
              LET i == find_account(db, a)
                  amt == ParseFloat(t)
                  r == deposit(db, a, t)
              IN  (i # 0 /\ amt # ValueError /\ FGt(amt, Fin(0))) =>
                     /\ Kind(r.out.msg) = "Ok"
                     /\ r.saved
                     /\ OneRecordAdded(db, r.db, i, "deposit", amt,
                                       FAdd(db.accounts[i].balance, amt))
        /\ \A m \in UiAmounts :
              LET i == find_account(file, a)
                  r == ui_deposit(file, a, m)
              IN  (i # 0 /\ FGt(m, Fin(0))) =>
                     /\ Kind(r.out.msg) = "Ok"
                     /\ r.saved
                     /\ OneRecordAdded(file, r.db, i, "deposit", m,
                                       FAdd(file.accounts[i].balance, m))

\* two accounts, one of which received two deposits of 1
C8_Witness ==
    /\ Len(db.accounts) = 2
    /\ \E i \in Indices(db) :
          /\ db.accounts[i].balance = Fin(2)
          /\ Len(db.accounts[i].transactions) = 2
          /\ \A n \in 1..2 :
                /\ db.accounts[i].transactions[n].type = "deposit"
                /\ db.accounts[i].transactions[n].balance_after = Fin(n)

(***************************************************************************)
(* C9: in every account, walking the records in order from 0, each         *)
(* record's balance_after is the running balance after that record, and    *)
(* the last one is the account's balance; both records of a transfer are   *)
(* included.                                                               *)
(***************************************************************************)
RECURSIVE RunningFrom(_, _, _)
RunningFrom(txs, n, prev) ==
    IF n > Len(txs) THEN TRUE
    ELSE LET run == IF txs[n].type \in {"deposit", "transfer_in", "interest"}
                    THEN FAdd(prev, txs[n].amount)
                    ELSE FSub(prev, txs[n].amount)
         IN  txs[n].balance_after = run /\ RunningFrom(txs, n + 1, run)

C9_RunningBalance ==
    \A i \in Indices(db) :
        LET txs == db.accounts[i].transactions
        IN  /\ RunningFrom(txs, 1, Fin(0))
            /\ IF txs = <<>> THEN db.accounts[i].balance = Fin(0)
               ELSE txs[Len(txs)].balance_after = db.accounts[i].balance

(***************************************************************************)
(* C10: across every step, the log of an account that is still in the      *)
(* document has the log before the step as a prefix; records are never     *)
(* modified, reordered or removed, and an account leaves only whole.       *)
(***************************************************************************)
LogsExtend(d, e) ==
    IF Len(e.accounts) < Len(d.accounts)
    THEN \E k \in Indices(d) : e.accounts = RemoveAt(d.accounts, k)
    ELSE \A i \in Indices(d) :
            /\ e.accounts[i].account_no = d.accounts[i].account_no
            /\ IsPrefix(d.accounts[i].transactions, e.accounts[i].transactions)

C10_AppendOnly == [][LogsExtend(db, db') /\ LogsExtend(file, file')]_vars

\* an account whose log was extended three times
C10_Witness ==
    \E i \in Indices(db) : Len(db.accounts[i].transactions) = 3

(***************************************************************************)
(* C11: interest is two-step. For an existing account, a rate >= 0 and     *)
(* years > 0 the computation reports balance * (rate/100) * years; without *)
(* the confirmation the document is unchanged; with it exactly that        *)
(* interest is added to the balance and one interest record is appended.   *)
(***************************************************************************)
ExpectedInterest(b, rate, years) == FDiv100(FMul(FMul(b, rate), years))

C11_InterestTwoStep ==
    \A a \in AccTexts :
        /\ \A t \in InterestTexts :
              LET i == find_account(db, a)
                  rate == ParseFloat(t[1])
                  years == ParseFloat(t[2])
                  r == calc_interest(db, a, t[1], t[2], t[3])
              IN  (/\ i # 0
                   /\ rate # ValueError /\ years # ValueError
                   /\ FGe(rate, Fin(0)) /\ FGt(years, Fin(0))) =>
                     LET b == db.accounts[i].balance
                         x == ExpectedInterest(b, rate, years)
                     IN  /\ r.out.val = x
                         /\ IF t[3] = "y"
                            THEN r.saved
                                 /\ OneRecordAdded(db, r.db, i, "interest", x, FAdd(b, x))
                            ELSE Unchanged(db, r)
        /\ \A rate \in UiRates, years \in UiYears :
              LET i == find_account(file, a)
                  shown == ui_interest(file, a, rate, years, "Calculate")
                  applied == ui_interest(file, a, rate, years, "Apply to Account")
              IN  i # 0 =>
                     LET b == file.accounts[i].balance
                         x == ExpectedInterest(b, rate, years)
                     IN  /\ shown.out.val = x
                         /\ Unchanged(file, shown)
                         /\ applied.saved
                         /\ OneRecordAdded(file, applied.db, i, "interest", x, FAdd(b, x))

(***************************************************************************)
(* C12: every transaction record of every account has an amount > 0 and a *)
(* type among deposit, withdraw, transfer_out, transfer_in, interest.      *)
(***************************************************************************)
C12_RecordsWellFormed ==
    \A i \in Indices(db) :
        \A n \in 1..Len(db.accounts[i].transactions) :
            /\ FGt(db.accounts[i].transactions[n].amount, Fin(0))
            /\ db.accounts[i].transactions[n].type
                 \in {"deposit", "withdraw", "transfer_out", "transfer_in", "interest"}

(***************************************************************************)
(* C13: when each of the ten candidate numbers belongs to an account, the  *)
(* creation aborts and the document is unchanged, in both front ends.      *)
(***************************************************************************)
AllCollide(d, cands) == \A k \in 1..Attempts : find_account(d, cands[k]) # 0

C13_GeneratorAborts ==
    \A c \in CandSeqs, s \in Salts :
        /\ AllCollide(db, c) => Unchanged(db, create_account(db, ValidForm, c, s))
        /\ AllCollide(file, c) => Unchanged(file, ui_create_account(file, ValidForm, c, s))

(***************************************************************************)
(* C14: every account of the document has a created_at timestamp.          *)
(***************************************************************************)
C14_CreatedAt ==
    \A i \in Indices(db) : db.accounts[i].created_at # Absent

(***************************************************************************)
(* C15: the administrative deletion removes an account only after the      *)
(* admin login succeeded and DELETE was typed for an existing account;     *)
(* then the account is gone, a lookup of its number finds nothing and the  *)
(* other accounts are as before. Otherwise the document is unchanged.      *)
(***************************************************************************)
C15_AdminDelete ==
    \A l \in AdminLogins, a \in AccTexts, c \in ConfirmTexts :
        LET i == find_account(db, a)
            auth == l[1] = db.admin.username /\ l[2] = db.admin.password
            r == admin_panel(db, l[1], l[2], delete_account(db, a, c))
        IN  IF auth /\ i # 0 /\ c = "DELETE"
            THEN /\ r.saved
                 /\ r.db.admin = db.admin
                 /\ Len(r.db.accounts) = Len(db.accounts) - 1
                 /\ \A k \in 1..Len(r.db.accounts) :
                       r.db.accounts[k] = db.accounts[IF k < i THEN k ELSE k + 1]
                 /\ find_account(r.db, a) = 0
            ELSE Unchanged(db, r)

\* the first account was deleted: the second one, with its deposit, is the
\* only account left
C15_Witness ==
    /\ Len(db.accounts) = 1
    /\ db.accounts[1].account_no = "BBBB000002"
    /\ db.accounts[1].balance = Fin(1)
    /\ file = db

(***************************************************************************)
(* C20: a search with an empty or blank query gives no result, in both     *)
(* front ends; otherwise the result is exactly the accounts whose name or  *)
(* account_no contains the trimmed query, letter case ignored, in          *)
(* document order.                                                         *)
(***************************************************************************)
TextOf(x) == IF x = None THEN <<>> ELSE Lower(Chars(x))

ExpectedMatches(d, query) ==
    LET q == Lower(Strip(Chars(query)))
    IN  IF q = <<>> THEN <<>>
        ELSE SelectSeq(d.accounts,
                       LAMBDA a : \/ Contains(q, TextOf(a.name))
                                  \/ Contains(q, TextOf(a.account_no)))

C20_Search ==
    \A q \in QueryTexts :
        /\ search_menu(db, q).out.val = Found(ExpectedMatches(db, q))
        /\ ui_search(file, q).out.val = Found(ExpectedMatches(file, q))

(***************************************************************************)
(* C16: whatever step a save is interrupted at, the file at the database   *)
(* path holds a complete document, the previous one or the new one; no     *)
(* step leaves it partly written.                                          *)
(***************************************************************************)
C16_CrashAtomicSave ==
    [][disk'.path = disk.path \/ disk'.path.part \in {"whole", "nofile"}]_vars

\* a process was killed while it wrote the temporary file: the piece it
\* wrote is on disk, the database file is the complete previous document
C16_Witness ==
    /\ ps = [p \in Procs |-> Off("")]
    /\ disk.tmp.part = "partial"
    /\ Parses(disk.path)
    /\ Len(disk.path.doc.accounts) = 1
    /\ disk.tmp.doc # disk.path.doc

(***************************************************************************)
(* C17: a load that finds an unparsable database file does not fail: no    *)
(* exception reaches the caller, in either front end.                      *)
(***************************************************************************)
C17_LoadRecovers ==
    \A p \in Procs : ps[p].out # "JSONDecodeError"

(***************************************************************************)
(* C18: when the save of an operation fails, the failure is shown, the     *)
(* file is unchanged and the mutation is not committed: the process keeps  *)
(* no memory, and what it loads next is the document before the operation  *)
(* (when that was the persisted one).                                      *)
(***************************************************************************)
LoadOf(p, dk) == IF p = "cli" THEN load_db_main(dk) ELSE load_db_ui(dk)

C18_FailedSaveNotCommitted ==
    [][\A p \in Procs :
          SaveFails(p) =>
             /\ disk'.path = disk.path
             /\ ps'[p].out = "OSError"
             /\ ps'[p].pc = "off"
             /\ (Parses(disk.path) /\ disk.path.doc = ps[p].pre)
                   => LoadOf(p, disk').mem = ps[p].pre
      ]_vars

\* a save failed after it wrote the new document to the temporary file:
\* the database file still holds the document before the operation
C18_Witness ==
    \E p \in Procs :
        /\ ps[p] = Off("OSError")
        /\ Parses(disk.path)
        /\ disk.tmp.part = "whole"
        /\ Len(disk.tmp.doc.accounts) = 1
        /\ disk.tmp.doc # disk.path.doc

(***************************************************************************)
(* C19: two processes with their own copy of the document are not kept     *)
(* apart: every save that completes makes the file exactly the saver's     *)
(* copy and reports success, so an operation the other process persisted   *)
(* in between is lost without an error.                                    *)
(***************************************************************************)
C19_LastWriterWins ==
    [][\A p \in Procs :
          TmpReplace(p) =>
             /\ Parses(disk'.path)
             /\ disk'.path.doc = ps[p].mem
             /\ ps'[p].out = ps[p].say
      ]_vars

\* both processes reported a successful deposit into the same account and
\* the persisted account has one deposit record
C19_Witness ==
    /\ ps["cli"].pc = "menu"
    /\ ps["cli"].out = "Deposit successful."
    /\ ps["ui"] = Off("Deposit Successful!")
    /\ Parses(disk.path)
    /\ Len(disk.path.doc.accounts) = 1
    /\ Len(disk.path.doc.accounts[1].transactions) = 1
    /\ disk.path.doc.accounts[1].balance = Fin(1)
(***************************************************************************)
(* PIN hashing.                                                            *)
(***************************************************************************)
\* the texts that can be hashed or offered for verification
VerifyTexts == NewPinTexts \cup PinTexts \cup {"", "01234"}

\* C21: for every PIN p and every generated salt s, hash_pin(p, s) returns
\* the salt s, p verifies against the returned salt and hash, and no other
\* PIN q does; every account of the ledger is opened by exactly one PIN.
\* (hash_pin is an operator of its arguments, so the same PIN and salt give
\* the same hash.)
C21_HashVerify ==
    /\ \A p \in VerifyTexts, s \in HexSalts :
          LET h == hash_pin(p, s)
          IN  /\ h.salt = s
              /\ verify_pin(p, h.salt, h.hashed)
              /\ \A q \in VerifyTexts \ {p} : ~verify_pin(q, h.salt, h.hashed)
    /\ \A i \in Indices(db) :
          Cardinality({ p \in VerifyTexts :
              verify_pin(p, db.accounts[i].pin_salt, db.accounts[i].pin_hash) }) = 1

\* an account created with PIN 1234 from which a withdrawal with that PIN
\* has been recorded, and which the PIN 0000 does not open
C21_Witness ==
    \E i \in Indices(db) :
        /\ db.accounts[i].pin_hash = hash_pin("1234", db.accounts[i].pin_salt).hashed
        /\ verify_pin("1234", db.accounts[i].pin_salt, db.accounts[i].pin_hash)
        /\ ~verify_pin("0000", db.accounts[i].pin_salt, db.accounts[i].pin_hash)
        /\ \E n \in 1..Len(db.accounts[i].transactions) :
              db.accounts[i].transactions[n].type = "withdraw"

(***************************************************************************)
(* Memory and file in one session.                                         *)
(***************************************************************************)
\* the number of save_db calls on the path the handler took
Saves(r) == IF r.saved THEN 1 ELSE 0

\* the file after an operation with result r that started with document d
\* in memory and on file
Persisted(d, r) == IF Saves(r) > 0 THEN r.db ELSE d

\* after the operation the file holds the document in memory, and an
\* operation that changed the document saved once
InStep(d, r) == Persisted(d, r) = r.db /\ (r.db # d => Saves(r) = 1)

\* the operation changed neither the document nor the file
ReadOnly(d, r) == r.db = d /\ Saves(r) = 0

\* C22: in a session of one process the file equals the document in memory
\* after every operation; an operation that changes the document (create,
\* deposit, withdraw, transfer, applied interest, delete, credential change)
\* saves exactly once, and lookups, details, search, interest preview,
\* listings, totals and export change neither the document nor the file.
C22_FileEqualsMemory ==
  [](
    /\ file = db
    /\ \A a \in AccTexts :
          /\ \A t \in AmountTexts : InStep(db, deposit(db, a, t))
          /\ \A m \in UiAmounts : InStep(file, ui_deposit(file, a, m))
          /\ \A p \in PinTexts :
                /\ \A t \in AmountTexts : InStep(db, withdraw(db, a, p, t))
                /\ \A m \in UiAmounts : InStep(file, ui_withdraw(file, a, p, m))
                /\ ReadOnly(db, show_details(db, a, p))
                /\ ReadOnly(file, ui_details(file, a, p))
          /\ \A t \in InterestTexts :
                LET r == calc_interest(db, a, t[1], t[2], t[3])
                IN  InStep(db, r) /\ (t[3] # "y" => ReadOnly(db, r))
          /\ \A r \in UiRates, y \in UiYears, c \in UiInterestButtons :
                InStep(file, ui_interest(file, a, r, y, c))
          /\ \A l \in AdminLogins :
                /\ \A c \in ConfirmTexts :
                      InStep(db, admin_panel(db, l[1], l[2], delete_account(db, a, c)))
    /\ \A r \in Routes, p \in PinTexts :
          /\ \A t \in AmountTexts : InStep(db, transfer(db, r[1], p, r[2], t))
          /\ \A m \in UiAmounts : InStep(file, ui_transfer(file, r[1], p, r[2], m))
    /\ \A c \in CandSeqs, s \in Salts :
          /\ \A f \in Forms : InStep(db, create_account(db, f, c, s))
          /\ \A f \in UiForms : InStep(file, ui_create_account(file, f, c, s))
    /\ \A l \in AdminLogins :
          /\ \A u \in NewAdminNames, p \in NewAdminPasswords :
                InStep(db, admin_panel(db, l[1], l[2], change_admin(db, u, p)))
          /\ ReadOnly(db, admin_panel(db, l[1], l[2], export_db(db)))
          /\ \A c \in ShowChoices :
                ReadOnly(db, admin_panel(db, l[1], l[2], admin_show(db, c[1], c[2])))
          /\ ReadOnly(file, ui_admin(file, l[1], l[2]))
    /\ \A q \in QueryTexts :
          ReadOnly(db, search_menu(db, q)) /\ ReadOnly(file, ui_search(file, q))
    /\ ReadOnly(db, show_all_accounts(db))
  )

\* a session that has created an account, deposited and changed the admin
\* credentials: the file holds all three changes
C22_Witness ==
    /\ file = db
    /\ db.admin # DEFAULT_ADMIN
    /\ \E i \in Indices(db) :
          /\ db.accounts[i].balance = Fin(1)
          /\ Len(db.accounts[i].transactions) = 1
          /\ file.accounts[i].transactions[1].type = "deposit"

(***************************************************************************)
(* Authorization.                                                          *)
(***************************************************************************)
\* the step is a withdrawal from account i of db, or a transfer out of it,
\* with a PIN that verifies against the salt and hash stored for account i
AuthorizedDebit(i) ==
    \/ \E a \in AccTexts, p \in PinTexts :
          /\ find_account(db, a) = i
          /\ PinOk(db, i, p)
          /\ \/ \E t \in AmountTexts : CliWithdraw(a, p, t)
             \/ \E m \in UiAmounts : UiWithdraw(a, p, m)
    \/ \E r \in Routes, p \in PinTexts :
          /\ find_account(db, r[1]) = i
          /\ PinOk(db, i, p)
          /\ \/ \E t \in AmountTexts : CliTransfer(r[1], p, r[2], t)
             \/ \E m \in UiAmounts : UiTransfer(r[1], p, r[2], m)

\* the step is a withdrawal or a transfer whose PIN does not verify against
\* the account it debits
WrongPinStep ==
    \/ \E a \in AccTexts, p \in PinTexts :
          /\ find_account(db, a) # 0
          /\ ~PinOk(db, find_account(db, a), p)
          /\ \/ \E t \in AmountTexts : CliWithdraw(a, p, t)
             \/ \E m \in UiAmounts : UiWithdraw(a, p, m)
    \/ \E r \in Routes, p \in PinTexts :
          /\ find_account(db, r[1]) # 0
          /\ ~PinOk(db, find_account(db, r[1]), p)
          /\ \/ \E t \in AmountTexts : CliTransfer(r[1], p, r[2], t)
             \/ \E m \in UiAmounts : UiTransfer(r[1], p, r[2], m)

\* the step removed one account and left the others as they were
OneRemoved == \E k \in Indices(db) : db'.accounts = RemoveAt(db.accounts, k)

\* the accounts of db that a step which removed none still has, in place
Kept == IF Len(db'.accounts) >= Len(db.accounts) THEN Indices(db) ELSE {}

PathComplete == \E d \in SaveDocs : disk.inodes[disk.path] = Pieces(d)

\* C24: when two processes save at once through the one temporary file,
\* under every interleaving of their open, write and rename steps the file
\* at DB_PATH holds the whole document of one saver, never an empty, cut
\* or mixed text, and no rename fails.
C24_ConcurrentSaves ==
    /\ PathComplete
    /\ \A p \in Procs : ps[p].out # "FileNotFoundError"

=============================================================================
